---------------------------- MODULE Spec2Model ----------------------------
(***************************************************************************)
(* Model of skills/de-AI-writing/tools/style-lint.ps1: a style linter that *)
(* loads a text file, computes paragraph statistics and pattern counts,    *)
(* prints line-referenced hit sections and ends with a PASS/FAIL verdict.  *)
(*                                                                         *)
(* A text is a sequence of characters.  A character is a string naming its *)
(* code point ("uff1a" is U+FF1A, the full-width colon); "x" is any        *)
(* character that no pattern of the script mentions.                       *)
(***************************************************************************)
EXTENDS Integers, Sequences, FiniteSets, TLC

(***************************************************************************)
(* Characters                                                              *)
(***************************************************************************)
LF == "lf"
CR == "cr"
SP == "sp"
TAB == "tab"
X == "x"
HASH == "hash"
DQ == "dq"
SQ == "sq"

\* Characters String.Trim() strips and the regex class \s matches.
WhiteSpace == {SP, LF, CR, TAB}

(***************************************************************************)
(* .NET string and regex primitives used by the script                     *)
(***************************************************************************)
Min(S) == CHOOSE m \in S : \A n \in S : m <= n

\* Number of whitespace characters of s from position i on (the run \s*
\* consumes), and from position i back.
RECURSIVE SkipSpace(_, _)
SkipSpace(s, i) ==
    IF i <= Len(s) /\ s[i] \in WhiteSpace THEN 1 + SkipSpace(s, i + 1) ELSE 0

RECURSIVE SkipSpaceBack(_, _)
SkipSpaceBack(s, i) ==
    IF i >= 1 /\ s[i] \in WhiteSpace THEN 1 + SkipSpaceBack(s, i - 1) ELSE 0

\* String.Trim() : s without its leading and trailing whitespace.
Trim(s) ==
    LET a == SkipSpace(s, 1)
    IN  IF a = Len(s) THEN <<>>
        ELSE SubSeq(s, a + 1, Len(s) - SkipSpaceBack(s, Len(s)))

\* The literal p occurs in s at position i.
MatchAt(s, i, p) ==
    /\ i + Len(p) - 1 <= Len(s)
    /\ \A k \in 1..Len(p) : s[i + k - 1] = p[k]

\* Length of the first alternative of alts (a sequence of literals, tried in
\* order as a regex alternation is) that matches s at i; 0 if none does.
RECURSIVE AltLenAt(_, _, _, _)
AltLenAt(s, i, alts, a) ==
    IF a > Len(alts) THEN 0
    ELSE IF MatchAt(s, i, alts[a]) THEN Len(alts[a])
    ELSE AltLenAt(s, i, alts, a + 1)

\* The positions of s at which the alternation matches: a match starts at a
\* character that begins one of the alternatives.
MatchStarts(s, alts) ==
    LET first == {alts[a][1] : a \in 1..Len(alts)}
    IN  {i \in 1..Len(s) : s[i] \in first /\ AltLenAt(s, i, alts, 1) > 0}

\* ([regex]::Matches(s, alts)).Count : the scan takes the leftmost match at or
\* after i and resumes behind it, so matches never overlap.
RECURSIVE CountFrom(_, _, _, _)
CountFrom(s, i, alts, starts) ==
    LET later == {j \in starts : j >= i}
    IN  IF later = {} THEN 0
        ELSE LET j == Min(later)
             IN  1 + CountFrom(s, j + AltLenAt(s, j, alts, 1), alts, starts)

RegexCount(s, alts) == CountFrom(s, 1, alts, MatchStarts(s, alts))

\* s -match alts : the alternation matches somewhere in s.
RegexIsMatch(s, alts) == MatchStarts(s, alts) # {}

\* Get-Content / Select-String line reading (StreamReader.ReadLine): a line
\* ends at "\r\n", "\n" or "\r"; a final terminator starts no further line.
RECURSIVE ReadLines(_)
ReadLines(s) ==
    IF s = <<>> THEN <<>>
    ELSE LET brk == {i \in 1..Len(s) : s[i] \in {CR, LF}}
         IN  IF brk = {} THEN <<s>>
             ELSE LET i == Min(brk)
                      n == IF s[i] = CR /\ i < Len(s) /\ s[i + 1] = LF THEN 2 ELSE 1
                  IN  <<SubSeq(s, 1, i - 1)>> \o ReadLines(SubSeq(s, i + n, Len(s)))


(***************************************************************************)
(* Paragraph analysis                                                      *)
(***************************************************************************)
\* One iteration of (\r?\n) at position i: the number of characters it
\* consumes, 0 if it does not match there.
BreakUnit(s, i) ==
    IF i <= Len(s) /\ s[i] = LF THEN 1
    ELSE IF i < Len(s) /\ s[i] = CR /\ s[i + 1] = LF THEN 2
    ELSE 0

\* The greedy run of (\r?\n) iterations starting at i:
\* <<characters consumed, iterations, length of the last iteration>>.
RECURSIVE BreakRun(_, _)
BreakRun(s, i) ==
    LET u == BreakUnit(s, i)
    IN  IF u = 0 THEN <<0, 0, 0>>
        ELSE LET r == BreakRun(s, i + u)
             IN  <<u + r[1], 1 + r[2], IF r[2] = 0 THEN u ELSE r[3]>>

\* s -split "(\r?\n){2,}" : the pieces between the matches, each match
\* followed by its captured group (the last line break of the run).
RECURSIVE SplitFrom(_, _)
SplitFrom(s, start) ==
    LET found == {i \in start..Len(s) : BreakUnit(s, i) > 0 /\ BreakRun(s, i)[2] >= 2}
    IN  IF found = {} THEN <<SubSeq(s, start, Len(s))>>
        ELSE LET i == Min(found)
                 r == BreakRun(s, i)
             IN  <<SubSeq(s, start, i - 1),
                   SubSeq(s, i + r[1] - r[3], i + r[1] - 1)>>
                 \o SplitFrom(s, i + r[1])

\* Variant: a paragraph break needs three line breaks, (\r?\n){3,}.
RECURSIVE SplitFromTriple(_, _)
SplitFromTriple(s, start) ==
    LET found == {i \in start..Len(s) : BreakUnit(s, i) > 0 /\ BreakRun(s, i)[2] >= 3}
    IN  IF found = {} THEN <<SubSeq(s, start, Len(s))>>
        ELSE LET i == Min(found)
                 r == BreakRun(s, i)
             IN  <<SubSeq(s, start, i - 1),
                   SubSeq(s, i + r[1] - r[3], i + r[1] - 1)>>
                 \o SplitFromTriple(s, i + r[1])

SplitParagraphsTriple(s) == SplitFromTriple(s, 1)

SplitParagraphs(s) == SplitFrom(s, 1)

\* $_ -match "^\r?\n+$"
IsBreakOnly(p) ==
    LET q == IF p # <<>> /\ p[1] = CR THEN Tail(p) ELSE p
    IN  q # <<>> /\ \A k \in 1..Len(q) : q[k] = LF

\* Variant: the filter tests the untrimmed length.
KeepParagraphUntrimmed(p) == Len(p) > 0 /\ ~IsBreakOnly(p)

\* Where-Object { $_.Trim().Length -gt 0 -and $_ -notmatch "^\r?\n+$" }
KeepParagraph(p) == Len(Trim(p)) > 0 /\ ~IsBreakOnly(p)

\* $paragraphs (line 20)
Paragraphs(t) == SelectSeq(SplitParagraphs(Trim(t)), KeepParagraph)

ShortLimit == 100

\* Where-Object { $_.Trim().Length -lt 100 -and $_.Trim().Length -gt 0 }
IsShortParagraph(p) == Len(Trim(p)) < ShortLimit /\ Len(Trim(p)) > 0

\* $shortParagraphs (line 22)
ShortParagraphs(ps) == SelectSeq(ps, IsShortParagraph)

RECURSIVE TotalParaChars(_)
TotalParaChars(ps) ==
    IF ps = <<>> THEN 0 ELSE Len(Trim(Head(ps))) + TotalParaChars(Tail(ps))

\* Variant: the quotient is truncated instead of rounded.
RoundDivTruncate(a, b) == a \div b

\* [math]::Round(a / b) for a >= 0, b > 0: to nearest, a tie to the even
\* integer.
RoundDiv(a, b) ==
    LET q == a \div b
        r == a % b
    IN  IF 2 * r < b THEN q
        ELSE IF 2 * r > b THEN q + 1
        ELSE IF q % 2 = 0 THEN q ELSE q + 1

\* $avgParaLen (lines 26-28)
AvgParaLen(ps) ==
    IF Len(ps) > 0 THEN RoundDiv(TotalParaChars(ps), Len(ps)) ELSE 0

\* ([regex]::Matches($text, "(?m)^##\s")).Count
HeadingCount(t) ==
    Cardinality({i \in 1..Len(t) :
        /\ i + 2 <= Len(t)
        /\ t[i] = HASH /\ t[i + 1] = HASH /\ t[i + 2] \in WhiteSpace
        /\ (i = 1 \/ t[i - 1] = LF)})

(***************************************************************************)
(* Pattern registry ($patterns, an ordered table of alternations)          *)
(***************************************************************************)
er_shi == << <<"u800c", "u662f">> >>
bu_shi == << <<"u4e0d", "u662f">> >>
ni_hui == << <<"u4f60", "u4f1a">> >>
ni == << <<"u4f60">> >>
semicolon == << <<"uff1b">> >>
colon == << <<"uff1a">> >>
period == << <<"u3002">> >>
exclamation == << <<"uff01">> >>
dash == << <<"u2014", "u2014">> >>
roadmark_terms ==
    << <<"u66f4", "u5173", "u952e">>,
       <<"u66f4", "u8981", "u547d">>,
       <<"u6362", "u53e5", "u8bdd", "u8bf4">>,
       <<"u4e8b", "u5b9e", "u4e0a">>,
       <<"u503c", "u5f97", "u6ce8", "u610f">>,
       <<"u603b", "u4e4b">>,
       <<"u4e0e", "u6b64", "u540c", "u65f6">> >>
ai_roadmarks_extra ==
    << <<"u4e0d", "u53ef", "u5426", "u8ba4">>,
       <<"u6beb", "u65e0", "u7591", "u95ee">>,
       <<"u7efc", "u4e0a", "u6240", "u8ff0">> >>
metaphor_markers ==
    << <<"u5982", "u540c">>,
       <<"u4eff", "u4f5b">>,
       <<"u597d", "u6bd4">>,
       <<"u72b9", "u5982">> >>
double_adj == << <<"u800c", "u53c8">> >>

PatternNames ==
    <<"er_shi", "bu_shi", "ni_hui", "ni", "semicolon", "colon", "period",
      "exclamation", "dash", "roadmark_terms", "ai_roadmarks_extra",
      "metaphor_markers", "double_adj">>

patterns ==
    [n \in {PatternNames[k] : k \in 1..Len(PatternNames)} |->
        CASE n = "er_shi" -> er_shi
          [] n = "bu_shi" -> bu_shi
          [] n = "ni_hui" -> ni_hui
          [] n = "ni" -> ni
          [] n = "semicolon" -> semicolon
          [] n = "colon" -> colon
          [] n = "period" -> period
          [] n = "exclamation" -> exclamation
          [] n = "dash" -> dash
          [] n = "roadmark_terms" -> roadmark_terms
          [] n = "ai_roadmarks_extra" -> ai_roadmarks_extra
          [] n = "metaphor_markers" -> metaphor_markers
          [] n = "double_adj" -> double_adj]

\* The "Pattern Counts" table (lines 86-89).
PatternCounts(t) ==
    [n \in DOMAIN patterns |-> RegexCount(t, patterns[n])]

(***************************************************************************)
(* Line-referenced hits                                                    *)
(***************************************************************************)
\* Select-String -Pattern alts : the numbers of the lines the alternation
\* matches, one hit per matching line, in line order.
RECURSIVE AllMatchesFrom(_, _, _)
AllMatchesFrom(ls, n, alts) ==
    IF n > Len(ls) THEN <<>>
    ELSE [k \in 1..RegexCount(ls[n], alts) |-> n] \o AllMatchesFrom(ls, n + 1, alts)

\* Variant: one hit per occurrence (Select-String -AllMatches, unrolled).
SelectStringAllMatches(ls, alts) == AllMatchesFrom(ls, 1, alts)

RECURSIVE HitsFrom(_, _, _)
HitsFrom(ls, n, alts) ==
    IF n > Len(ls) THEN <<>>
    ELSE (IF RegexIsMatch(ls[n], alts) THEN <<n>> ELSE <<>>)
         \o HitsFrom(ls, n + 1, alts)

SelectString(ls, alts) == HitsFrom(ls, 1, alts)

\* Pattern of the "Hit Lines" section (line 93): er_shi | ni_hui
HitLinePattern == er_shi \o ni_hui

colonChar == "uff1a"
quoteChar == "u201c"

\* The verbs of $quoteOnlyPattern, in source order (line 120).
SpeechVerbs ==
    << <<"u8bf4">>, <<"u95ee">>, <<"u7b54">>, <<"u5199", "u9053">>,
       <<"u6307", "u51fa">>, <<"u8868", "u793a">>, <<"u5f3a", "u8c03">> >>

\* The tail \s*<colon>\s*[<quoteChar>"'] matches s from position i.
ColonQuoteTailAt(s, i) ==
    LET c == i + SkipSpace(s, i)
    IN  /\ c <= Len(s)
        /\ s[c] = colonChar
        /\ LET q == c + 1 + SkipSpace(s, c + 1)
           IN  q <= Len(s) /\ s[q] \in {quoteChar, DQ, SQ}

\* line -match $quoteOnlyPattern.  The pattern is the string
\*   v1|v2|v3|v4|v5|v6|v7\s*<colon>\s*[<quote>"']
\* with no group around the verbs, and alternation binds loosest: the tail
\* belongs to the last alternative only, the first six are bare verbs.
MatchesQuoteOnlyPattern(line) ==
    \E i \in 1..Len(line) :
        \/ \E v \in 1..(Len(SpeechVerbs) - 1) : MatchAt(line, i, SpeechVerbs[v])
        \/ /\ MatchAt(line, i, SpeechVerbs[Len(SpeechVerbs)])
           /\ ColonQuoteTailAt(line, i + Len(SpeechVerbs[Len(SpeechVerbs)]))


(***************************************************************************)
(* Input documents and configurations                                      *)
(***************************************************************************)
MaxLines == 2
MaxParas == 4
DefaultColonBudget == 2

\* The texts of at most n lines drawn from the set kinds, joined by LF.
RECURSIVE JoinLines(_)
JoinLines(ls) ==
    IF ls = <<>> THEN <<>>
    ELSE IF Len(ls) = 1 THEN ls[1]
    ELSE ls[1] \o <<LF>> \o JoinLines(Tail(ls))

TextsOfLines(kinds, n) ==
    {JoinLines(ls) : ls \in UNION {[1..m -> kinds] : m \in 0..n}}

\* Lines that exercise the colon rule.
ColonLineKinds ==
    { <<X>>,                                      \* no colon
      <<"u8bf4", colonChar, quoteChar, X>>,       \* verb, colon, quote
      <<"u8bf4", colonChar, quoteChar, "u95ee", colonChar, DQ>>,  \* twice
      <<"u8bf4", X, colonChar, X>>,               \* a verb, colon elsewhere
      <<X, colonChar, X>>,                        \* colon, no verb
      <<colonChar, X, colonChar>>,                \* two colons, colon first
      <<"u5f3a", "u8c03", SP, colonChar, SQ>>,    \* last verb, colon, quote
      <<"u5f3a", "u8c03", colonChar, X>> }        \* last verb, no quote

\* Lines that exercise the occurrence-count rules.
PunctLineKinds ==
    { <<"uff01">>,
      <<"uff01", X, "uff01">>,
      <<"u2014", "u2014">>,
      <<"u2014", "u2014", "u2014", "u2014">>,
      <<"u800c", "u662f", "u800c", "u662f">>,
      <<"u4f60", "u4f1a">>,
      <<"u603b", "u4e4b">>,
      <<"u603b", "u4e4b", "u4e8b", "u5b9e", "u4e0a">>,
      <<"u5982", "u540c", "u72b9", "u5982">>,
      <<"u800c", "u53c8">>,
      <<"u4e0d", "u662f", "uff1b", "u3002">> }

Run(c, n) == [i \in 1..n |-> c]

\* Paragraph bodies: two short lines, one character under the short limit,
\* exactly the short limit.
ParaBlockKinds == { <<X, LF, X>>, Run(X, ShortLimit - 1), Run(X, ShortLimit) }

\* What stands between two bodies: a paragraph break, or two breaks around a
\* whitespace-only run.
ParaSepKinds == { <<LF, LF>>, <<CR, LF, LF, SP, LF, LF>> }

RECURSIVE Interleave(_, _)
Interleave(bs, ss) ==
    IF Len(bs) = 1 THEN bs[1]
    ELSE bs[1] \o ss[1] \o Interleave(Tail(bs), Tail(ss))

ParaTexts ==
    UNION { {Interleave(bs, ss) : bs \in [1..m -> ParaBlockKinds],
                                  ss \in [1..(m - 1) -> ParaSepKinds]}
            : m \in 1..MaxParas }

\* Two-paragraph documents at the edges of the split: a break of three line
\* feeds, a body ending in a lone carriage return before the break, bodies of
\* one character and of the short limit, and a whitespace-only document.
EdgeBlockKinds == { <<X>>, <<X, LF, CR>>, Run(X, ShortLimit) }
EdgeSepKinds == { <<LF, LF, LF>>, <<CR, LF, LF>> }
EdgeTexts ==
    {b1 \o s \o b2 : b1 \in EdgeBlockKinds, s \in EdgeSepKinds, b2 \in EdgeBlockKinds}
    \cup { <<SP, LF, LF>> }

Configs(budgets, flags, skips) ==
    [ColonBudget : budgets, ColonExceptionsQuoteOnly : flags, SkipTitleLine : skips]

AllConfigs == Configs({DefaultColonBudget - 1, DefaultColonBudget}, BOOLEAN, BOOLEAN)
DefaultConfigs == Configs({DefaultColonBudget}, {TRUE}, {FALSE})
FlippedConfigs == Configs({DefaultColonBudget - 1}, {FALSE}, {TRUE})

\* An invocation: what the path names and the parameters.  The path may name
\* nothing, something Test-Path finds but Get-Content cannot read (a directory,
\* a file without read permission), or a readable file with its content.
Invocations ==
    [exists : {TRUE}, readable : {TRUE},
     content : TextsOfLines(ColonLineKinds, MaxLines), cfg : AllConfigs]
    \cup [exists : {TRUE}, readable : {TRUE},
          content : TextsOfLines(PunctLineKinds, MaxLines), cfg : DefaultConfigs]
    \cup [exists : {TRUE}, readable : {TRUE}, content : ParaTexts, cfg : FlippedConfigs]
    \cup [exists : {TRUE}, readable : {TRUE}, content : EdgeTexts, cfg : DefaultConfigs]
    \cup [exists : {TRUE}, readable : {FALSE}, content : {<<X, colonChar, X>>},
          cfg : AllConfigs]
    \cup [exists : {FALSE}, readable : {FALSE}, content : {<<>>}, cfg : AllConfigs]

(***************************************************************************)
(* State                                                                   *)
(***************************************************************************)
VARIABLES
    pc,                 \* position of the script
    file,               \* [exists, readable, content] : what $Path names
    ColonBudget, ColonExceptionsQuoteOnly, SkipTitleLine,   \* parameters
    text, lines,        \* $text, $lines
    paragraphs, paragraphCount, shortParagraphCount, avgParaLen,
    counts,             \* the pattern count table
    hits,               \* line numbers of the er_shi|ni_hui hits
    colonHits, colonCount, colonViolations,
    exclHits, dashHits, dashCount,
    metaphorCount, metaphorHits, doubleAdjCount, doubleAdjHits,
    issues,             \* $issues
    out,                \* the report written so far, one entry per output line
    exitCode,           \* -1 while running
    previous            \* what the run before this one produced, if there was one

\* State of the login page (frontend/src/pages/Login.tsx).
VARIABLES
    checking,                   \* useState(true), line 14
    localAuthEnabled,           \* line 15
    localRegistrationEnabled,   \* line 16
    loading,                    \* useState(false), line 13
    showAnnouncement,           \* useState(false), line 17
    request,                    \* the authApi call a submit handler awaits
    redirect,                   \* searchParams.get('redirect')
    storage,                    \* localStorage: announcement_hide_forever, _today
    today,                      \* new Date().toDateString(), as a day number
    navigated,                  \* the targets navigate() was called with
    lastEvent,                  \* the handler or continuation that ran last
    visits                      \* times the page has been mounted

page ==
    <<checking, localAuthEnabled, localRegistrationEnabled, loading,
      showAnnouncement, request, redirect, storage, today, navigated, lastEvent,
      visits>>

script ==
    <<pc, file, ColonBudget, ColonExceptionsQuoteOnly, SkipTitleLine, text, lines,
      paragraphs, paragraphCount, shortParagraphCount, avgParaLen, counts, hits,
      colonHits, colonCount, colonViolations, exclHits, dashHits, dashCount,
      metaphorCount, metaphorHits, doubleAdjCount, doubleAdjHits, issues, out,
      exitCode, previous>>

vars == <<script, page>>

\* No value of the redirect query parameter / of a localStorage key.
Absent == "absent"

\* The login page is not open while the script runs.
PageClosed ==
    /\ checking = TRUE
    /\ localAuthEnabled = FALSE
    /\ localRegistrationEnabled = FALSE
    /\ loading = FALSE
    /\ showAnnouncement = FALSE
    /\ request = "none"
    /\ redirect = Absent
    /\ storage = [hideForever |-> Absent, hideToday |-> Absent]
    /\ today = 1
    /\ navigated = <<>>
    /\ lastEvent = "none"
    /\ visits = 0

params == <<file, ColonBudget, ColonExceptionsQuoteOnly, SkipTitleLine>>
loaded == <<text, lines>>
paraVars == <<paragraphs, paragraphCount, shortParagraphCount, avgParaLen>>
colonVars == <<colonHits, colonCount, colonViolations>>
warnVars ==
    <<exclHits, dashHits, dashCount, metaphorCount, metaphorHits, doubleAdjCount,
      doubleAdjHits>>

\* The script is invoked with one of the invocations invs.
Start(invs) ==
    /\ pc = "start"
    /\ \E inv \in invs :
        /\ file = [exists |-> inv.exists, readable |-> inv.readable,
                   content |-> inv.content]
        /\ ColonBudget = inv.cfg.ColonBudget
        /\ ColonExceptionsQuoteOnly = inv.cfg.ColonExceptionsQuoteOnly
        /\ SkipTitleLine = inv.cfg.SkipTitleLine
    /\ text = <<>>
    /\ lines = <<>>
    /\ paragraphs = <<>>
    /\ paragraphCount = 0
    /\ shortParagraphCount = 0
    /\ avgParaLen = 0
    /\ counts = [n \in DOMAIN patterns |-> 0]
    /\ hits = <<>>
    /\ colonHits = <<>>
    /\ colonCount = 0
    /\ colonViolations = <<>>
    /\ exclHits = <<>>
    /\ dashHits = <<>>
    /\ dashCount = 0
    /\ metaphorCount = 0
    /\ metaphorHits = <<>>
    /\ doubleAdjCount = 0
    /\ doubleAdjHits = <<>>
    /\ issues = <<>>
    /\ out = <<>>
    /\ exitCode = -1
    /\ previous = <<>>

Init == Start(Invocations) /\ PageClosed


(***************************************************************************)
(* Report entries: <<section, kind, tag, number>>, one per Write-Output    *)
(***************************************************************************)
Blank(sec) == <<sec, "blank", "", 0>>
Title(sec) == <<sec, "title", "", 0>>
Stat(sec, tag, n) == <<sec, "stat", tag, n>>
None(sec) == <<sec, "none", "", 0>>
HitEntry(sec, n) == <<sec, "hit", "", n>>

\* $h | ForEach-Object { Write-Output ("  L{0}: {1}" -f $_.LineNumber, ...) }
HitEntries(sec, h) == [k \in 1..Len(h) |-> HitEntry(sec, h[k])]

(***************************************************************************)
(* Colon rule (lines 100-129)                                              *)
(***************************************************************************)
\* Variant: the title line is not filtered out of the hits.
ColonHitsKeepTitle(ls, skip) == SelectString(ls, colon)

\* Variant: the hits left after the title line is dropped are renumbered
\* from 1.
ColonHitsRenumbered(ls, skip) ==
    LET all == SelectString(ls, colon)
        AfterTitle(n) == n > 1
        kept == SelectSeq(all, AfterTitle)
    IN  IF skip /\ all # <<>> THEN [k \in 1..Len(kept) |-> kept[k] - 1] ELSE all

\* $colonHits (lines 104-107)
ColonHits(ls, skip) ==
    LET all == SelectString(ls, colon)
        AfterTitle(n) == n > 1
    IN  IF skip /\ all # <<>> THEN SelectSeq(all, AfterTitle) ELSE all

\* $lines[0] (line 116).  Get-Content yields nothing for an empty file, one
\* string for a one-line file and an array of strings otherwise; indexing a
\* string gives its character at that index, indexing nothing gives nothing.
FirstLine(ls) ==
    IF Len(ls) = 0 THEN <<>>
    ELSE IF Len(ls) = 1 THEN (IF ls[1] = <<>> THEN <<>> ELSE <<ls[1][1]>>)
    ELSE ls[1]

\* $colonCount (lines 114-119)
ColonCount(t, ls, skip) ==
    RegexCount(t, colon) - (IF skip THEN RegexCount(FirstLine(ls), colon) ELSE 0)

\* Variant: every listed colon line is a violation, no exemption.
ColonViolationsNoExemption(ls, ch, quoteOnly) ==
    IF quoteOnly /\ ch # <<>> THEN ch ELSE <<>>

\* Variant: violations are tallied whether or not the option is set.
ColonViolationsIgnoreFlag(ls, ch, quoteOnly) ==
    LET NotQuote(n) == ~MatchesQuoteOnlyPattern(ls[n])
    IN  SelectSeq(ch, NotQuote)

\* $colonViolations (lines 121-129)
ColonViolations(ls, ch, quoteOnly) ==
    LET NotQuote(n) == ~MatchesQuoteOnlyPattern(ls[n])
    IN  IF quoteOnly /\ ch # <<>> THEN SelectSeq(ch, NotQuote) ELSE <<>>

(***************************************************************************)
(* Verdict (lines 184-206)                                                 *)
(***************************************************************************)
ErShiLimit == 1
NiHuiLimit == 0
ShortParagraphLimit == 4
ExclLimit == 2
DashLimit == 3
RoadmarkLimit == 2

Issue(rule, value, limit) == [rule |-> rule, value |-> value, limit |-> limit]
When(cond, issue) == IF cond THEN <<issue>> ELSE <<>>

\* Variant: a count equal to the budget already fails.
PassBudgetStrict(cc, budget) == cc < budget

\* $passBudget (line 192)
PassBudget(cc, budget) == cc <= budget

\* $passColonUsage (line 195)
PassColonUsage(quoteOnly, cv) == (~quoteOnly) \/ Len(cv) = 0

\* Variant: the threshold itself does not fail.
FailsShortParagraphsStrict(n) == n > ShortParagraphLimit

\* short paragraph test (line 198)
FailsShortParagraphs(n) == n >= ShortParagraphLimit

\* Variant: the non-quote colon check comes before the budget check.
IssuesColonUsageFirst(t, cc, cv, budget, quoteOnly, shortCount, dc) ==
    LET erShiCount == RegexCount(t, er_shi)
        niHuiCount == RegexCount(t, ni_hui)
        exclCount == RegexCount(t, exclamation)
        roadmarkCount == RegexCount(t, roadmark_terms)
    IN  When(erShiCount > ErShiLimit, Issue("er_shi", erShiCount, ErShiLimit))
        \o When(niHuiCount > NiHuiLimit, Issue("ni_hui", niHuiCount, NiHuiLimit))
        \o When(~PassColonUsage(quoteOnly, cv), Issue("colon_usage", 0, 0))
        \o When(~PassBudget(cc, budget), Issue("colon_budget", cc, budget))
        \o When(FailsShortParagraphs(shortCount),
                Issue("short_paragraphs", shortCount, ShortParagraphLimit))
        \o When(exclCount > ExclLimit, Issue("exclamation", exclCount, ExclLimit))
        \o When(dc > DashLimit, Issue("dashes", dc, DashLimit))
        \o When(roadmarkCount > RoadmarkLimit,
                Issue("roadmark_terms", roadmarkCount, RoadmarkLimit))

\* Variant: the bu_shi count is a failure condition too.
IssuesWithBuShi(t, cc, cv, budget, quoteOnly, shortCount, dc) ==
    LET erShiCount == RegexCount(t, er_shi)
        buShiCount == RegexCount(t, bu_shi)
        niHuiCount == RegexCount(t, ni_hui)
        exclCount == RegexCount(t, exclamation)
        roadmarkCount == RegexCount(t, roadmark_terms)
    IN  When(erShiCount > ErShiLimit, Issue("er_shi", erShiCount, ErShiLimit))
        \o When(buShiCount > 0, Issue("bu_shi", buShiCount, 0))
        \o When(niHuiCount > NiHuiLimit, Issue("ni_hui", niHuiCount, NiHuiLimit))
        \o When(~PassBudget(cc, budget), Issue("colon_budget", cc, budget))
        \o When(~PassColonUsage(quoteOnly, cv), Issue("colon_usage", 0, 0))
        \o When(FailsShortParagraphs(shortCount),
                Issue("short_paragraphs", shortCount, ShortParagraphLimit))
        \o When(exclCount > ExclLimit, Issue("exclamation", exclCount, ExclLimit))
        \o When(dc > DashLimit, Issue("dashes", dc, DashLimit))
        \o When(roadmarkCount > RoadmarkLimit,
                Issue("roadmark_terms", roadmarkCount, RoadmarkLimit))

\* $issues after line 206
Issues(t, cc, cv, budget, quoteOnly, shortCount, dc) ==
    LET erShiCount == RegexCount(t, er_shi)
        niHuiCount == RegexCount(t, ni_hui)
        exclCount == RegexCount(t, exclamation)
        roadmarkCount == RegexCount(t, roadmark_terms)
    IN  When(erShiCount > ErShiLimit, Issue("er_shi", erShiCount, ErShiLimit))
        \o When(niHuiCount > NiHuiLimit, Issue("ni_hui", niHuiCount, NiHuiLimit))
        \o When(~PassBudget(cc, budget), Issue("colon_budget", cc, budget))
        \o When(~PassColonUsage(quoteOnly, cv), Issue("colon_usage", 0, 0))
        \o When(FailsShortParagraphs(shortCount),
                Issue("short_paragraphs", shortCount, ShortParagraphLimit))
        \o When(exclCount > ExclLimit, Issue("exclamation", exclCount, ExclLimit))
        \o When(dc > DashLimit, Issue("dashes", dc, DashLimit))
        \o When(roadmarkCount > RoadmarkLimit,
                Issue("roadmark_terms", roadmarkCount, RoadmarkLimit))

(***************************************************************************)
(* Report sections (lines 91-178)                                          *)
(***************************************************************************)
\* Lines 92-98: header, then the hits or the placeholder.
HitLinesSection(h) ==
    <<Title("hit_lines")>>
    \o (IF h # <<>> THEN HitEntries("hit_lines", h) ELSE <<None("hit_lines")>>)

\* Variant: no placeholder when there is no colon line.
ColonLinesSectionNoPlaceholder(ch) ==
    <<Title("colon_lines")>>
    \o (IF ch # <<>> THEN HitEntries("colon_lines", ch) ELSE <<>>)

\* Lines 101-112: header, then the hits or the placeholder.
ColonLinesSection(ch) ==
    <<Title("colon_lines")>>
    \o (IF ch # <<>> THEN HitEntries("colon_lines", ch) ELSE <<None("colon_lines")>>)

\* Lines 132-135.
ColonViolationsSection(cv) ==
    IF Len(cv) > 0
    THEN <<Title("colon_violations")>> \o HitEntries("colon_violations", cv)
    ELSE <<>>

\* Lines 141-144.
ExclamationSection(eh) ==
    IF eh # <<>> THEN <<Title("exclamation")>> \o HitEntries("exclamation", eh)
    ELSE <<>>

\* Variant: the dash warning appears as soon as the limit is reached.
DashSectionAtLimit(dc, dh) ==
    IF dc >= DashLimit
    THEN <<Title("dash")>> \o (IF dh # <<>> THEN HitEntries("dash", dh) ELSE <<>>)
    ELSE <<>>

\* Lines 151-156.
DashSection(dc, dh) ==
    IF dc > DashLimit
    THEN <<Title("dash")>> \o (IF dh # <<>> THEN HitEntries("dash", dh) ELSE <<>>)
    ELSE <<>>

\* Variant: the metaphor section is printed only when a marker was found.
MetaphorSectionWhenFound(mc, mh) ==
    IF mc > 0
    THEN <<Title("metaphor"), Stat("metaphor", "Count", mc)>> \o HitEntries("metaphor", mh)
    ELSE <<>>

\* Lines 162-167: the header and the count are printed in any case.
MetaphorSection(mc, mh) ==
    <<Title("metaphor"), Stat("metaphor", "Count", mc)>>
    \o (IF mc > 0 THEN HitEntries("metaphor", mh) ELSE <<>>)

\* Lines 173-178.
DoubleAdjSection(c, h) ==
    IF c > 0
    THEN <<Title("double_adj"), Stat("double_adj", "Count", c)>>
         \o HitEntries("double_adj", h)
    ELSE <<>>

(***************************************************************************)
(* Steps of the script                                                     *)
(***************************************************************************)
\* Lines 9-12: the path names no file.
NotFound ==
    /\ pc = "start"
    /\ ~file.exists
    /\ pc' = "aborted"
    /\ exitCode' = 1
    /\ UNCHANGED <<page, previous, params, loaded, paraVars, counts, hits, colonVars, warnVars,
                   issues, out>>

\* What Get-Content obtains from the file: its content, or nothing when the
\* read fails.  The failure is a non-terminating error, the script goes on.
Content(f) == IF f.readable THEN f.content ELSE <<>>

\* Lines 14-17.  An empty file, or a failed read, gives $null for $text and
\* $lines; every later use of them behaves as for the empty string and the
\* empty list.
Load ==
    /\ pc = "start"
    /\ file.exists
    /\ text' = Content(file)
    /\ lines' = ReadLines(text')
    /\ pc' = "paragraphs"
    /\ UNCHANGED <<page, previous, params, paraVars, counts, hits, colonVars, warnVars, issues, out,
                   exitCode>>

\* Lines 19-30.
ParagraphAnalysis ==
    /\ pc = "paragraphs"
    /\ paragraphs' = Paragraphs(text)
    /\ paragraphCount' = Len(paragraphs')
    /\ shortParagraphCount' = Len(ShortParagraphs(paragraphs'))
    /\ avgParaLen' = AvgParaLen(paragraphs')
    /\ pc' = "counts"
    /\ UNCHANGED <<page, previous, params, loaded, counts, hits, colonVars, warnVars, issues, out,
                   exitCode>>

\* Lines 72-89: header, paragraph statistics, pattern count table.
ReportCounts ==
    /\ pc = "counts"
    /\ counts' = PatternCounts(text)
    /\ out' = out
        \o <<Title("report"), Stat("report", "Chars", Len(text)),
             Stat("report", "Lines", Len(lines)), Blank("report"),
             Title("paragraphs"), Stat("paragraphs", "Paragraphs", paragraphCount),
             Stat("paragraphs", "Avg", avgParaLen),
             Stat("paragraphs", "Short", shortParagraphCount),
             Stat("paragraphs", "H2", HeadingCount(text)),
             Stat("paragraphs", "ColonBudget", ColonBudget),
             Blank("paragraphs"), Title("counts")>>
        \o [k \in 1..Len(PatternNames) |->
                Stat("counts", PatternNames[k], counts'[PatternNames[k]])]
    /\ pc' = "hit_lines"
    /\ UNCHANGED <<page, previous, params, loaded, paraVars, hits, colonVars, warnVars, issues,
                   exitCode>>

\* Lines 91-98.
HitLines ==
    /\ pc = "hit_lines"
    /\ hits' = SelectString(lines, HitLinePattern)
    /\ out' = out \o <<Blank("counts")>> \o HitLinesSection(hits')
    /\ pc' = "colon_lines"
    /\ UNCHANGED <<page, previous, params, loaded, paraVars, counts, colonVars, warnVars, issues,
                   exitCode>>

\* Lines 100-135.
ColonLines ==
    /\ pc = "colon_lines"
    /\ colonHits' = ColonHits(lines, SkipTitleLine)
    /\ colonCount' = ColonCount(text, lines, SkipTitleLine)
    /\ colonViolations' = ColonViolations(lines, colonHits', ColonExceptionsQuoteOnly)
    /\ out' = out \o <<Blank("hit_lines")>> \o ColonLinesSection(colonHits')
        \o <<Blank("colon_lines")>> \o ColonViolationsSection(colonViolations')
    /\ pc' = "warnings"
    /\ UNCHANGED <<page, previous, params, loaded, paraVars, counts, hits, warnVars, issues,
                   exitCode>>

\* Lines 137-178: exclamation, dash, metaphor and double-adjective sections.
\* $metaphorHits and $doubleAdjHits are assigned only when the count is not 0.
WarningSections ==
    /\ pc = "warnings"
    /\ exclHits' = SelectString(lines, exclamation)
    /\ dashHits' = SelectString(lines, dash)
    /\ dashCount' = RegexCount(text, dash)
    /\ metaphorCount' = RegexCount(text, metaphor_markers)
    /\ metaphorHits' = IF metaphorCount' > 0 THEN SelectString(lines, metaphor_markers)
                       ELSE metaphorHits
    /\ doubleAdjCount' = RegexCount(text, double_adj)
    /\ doubleAdjHits' = IF doubleAdjCount' > 0 THEN SelectString(lines, double_adj)
                        ELSE doubleAdjHits
    /\ out' = out
        \o <<Blank("exclamation")>> \o ExclamationSection(exclHits')
        \o <<Blank("dash")>> \o DashSection(dashCount', dashHits')
        \o <<Blank("metaphor")>> \o MetaphorSection(metaphorCount', metaphorHits')
        \o <<Blank("double_adj")>> \o DoubleAdjSection(doubleAdjCount', doubleAdjHits')
    /\ pc' = "result"
    /\ UNCHANGED <<page, previous, params, loaded, paraVars, counts, hits, colonVars, issues,
                   exitCode>>

\* Variant: $issues is not emptied before the checks (line 184 missing).
FinalResultKeepIssues ==
    /\ pc = "result"
    /\ issues' = issues \o Issues(text, colonCount, colonViolations, ColonBudget,
                                  ColonExceptionsQuoteOnly, shortParagraphCount, dashCount)
    /\ out' = out \o <<Blank("result"), Title("result")>>
        \o (IF Len(issues') = 0 THEN <<<<"result", "verdict", "PASS", 0>>>>
            ELSE <<<<"result", "verdict", "FAIL", 0>>>>
                 \o [k \in 1..Len(issues') |-> <<"result", "issue", issues'[k].rule, k>>])
    /\ pc' = "done"
    /\ exitCode' = 0
    /\ UNCHANGED <<page, previous, params, loaded, paraVars, counts, hits, colonVars, warnVars>>

\* Lines 180-215.
FinalResult ==
    /\ pc = "result"
    /\ issues' = Issues(text, colonCount, colonViolations, ColonBudget,
                        ColonExceptionsQuoteOnly, shortParagraphCount, dashCount)
    /\ out' = out \o <<Blank("result"), Title("result")>>
        \o (IF Len(issues') = 0 THEN <<<<"result", "verdict", "PASS", 0>>>>
            ELSE <<<<"result", "verdict", "FAIL", 0>>>>
                 \o [k \in 1..Len(issues') |-> <<"result", "issue", issues'[k].rule, k>>])
    /\ pc' = "done"
    /\ exitCode' = 0
    /\ UNCHANGED <<page, previous, params, loaded, paraVars, counts, hits, colonVars, warnVars>>

Next ==
    \/ NotFound
    \/ Load
    \/ ParagraphAnalysis
    \/ ReportCounts
    \/ HitLines
    \/ ColonLines
    \/ WarningSections
    \/ FinalResult

Spec == Init /\ [][Next]_vars

(***************************************************************************)
(* The script run a second time on the same file with the same parameters  *)
(***************************************************************************)
\* Invocations that are repeated.
RepeatedInvocations ==
    [exists : {TRUE}, readable : {TRUE},
     content : TextsOfLines(ColonLineKinds, MaxLines),
     cfg : DefaultConfigs \cup FlippedConfigs]
    \cup [exists : {TRUE}, readable : {TRUE},
          content : TextsOfLines(PunctLineKinds, MaxLines), cfg : DefaultConfigs]
    \cup [exists : {TRUE}, readable : {TRUE}, content : EdgeTexts, cfg : DefaultConfigs]
    \cup [exists : {TRUE}, readable : {FALSE}, content : {<<X, colonChar, X>>},
          cfg : DefaultConfigs]
    \cup [exists : {FALSE}, readable : {FALSE}, content : {<<>>}, cfg : DefaultConfigs]

\* What a caller observes of a finished run.
Observed == [out |-> out, issues |-> issues, exitCode |-> exitCode]

\* The finished script is invoked again.  Its output starts empty; its
\* variables either start unset (the script run in a scope of its own) or keep
\* the values the first run left (the script dot-sourced twice in one scope).
Rerun ==
    /\ pc \in {"done", "aborted"}
    /\ previous = <<>>
    /\ previous' = <<Observed>>
    /\ pc' = "start"
    /\ out' = <<>>
    /\ exitCode' = -1
    /\ \/ UNCHANGED <<loaded, paraVars, counts, hits, colonVars, warnVars, issues>>
       \/ /\ text' = <<>>
          /\ lines' = <<>>
          /\ paragraphs' = <<>>
          /\ paragraphCount' = 0
          /\ shortParagraphCount' = 0
          /\ avgParaLen' = 0
          /\ counts' = [n \in DOMAIN patterns |-> 0]
          /\ hits' = <<>>
          /\ colonHits' = <<>>
          /\ colonCount' = 0
          /\ colonViolations' = <<>>
          /\ exclHits' = <<>>
          /\ dashHits' = <<>>
          /\ dashCount' = 0
          /\ metaphorCount' = 0
          /\ metaphorHits' = <<>>
          /\ doubleAdjCount' = 0
          /\ doubleAdjHits' = <<>>
          /\ issues' = <<>>
    /\ UNCHANGED <<page, params>>

InitRepeated == Start(RepeatedInvocations) /\ PageClosed

NextRepeated ==
    \/ Next
    \/ Rerun

SpecRepeated == InitRepeated /\ [][NextRepeated]_vars

(***************************************************************************)
(* The login page (frontend/src/pages/Login.tsx)                           *)
(***************************************************************************)
MaxDay == 2
MaxVisits == 2

Days == 1..MaxDay

\* Values of the redirect query parameter: none, empty, a path.
RedirectValues == {Absent, "", "/projects"}

\* searchParams.get('redirect') || '/'   (lines 25, 50, 89)
RedirectTarget(r) == IF r = Absent \/ r = "" THEN "/" ELSE r

\* Variant: only the permanent preference hides the announcement.
AnnouncementHiddenForeverOnly(st, day) == st.hideForever = "true"

\* hideForever === 'true' || hideToday === today   (line 49).  hideToday is
\* the stored day, 0 when the key is not set.
AnnouncementHidden(st, day) == st.hideForever = "true" \/ st.hideToday = day

\* The component is mounted and has not navigated away.
OnPage == visits >= 1 /\ navigated = <<>>

\* The page is opened: the useState initial values (lines 13-17), some query
\* string, whatever localStorage holds from earlier days.
PageOpened ==
    /\ checking = TRUE
    /\ localAuthEnabled = FALSE
    /\ localRegistrationEnabled = FALSE
    /\ loading = FALSE
    /\ showAnnouncement = FALSE
    /\ request = "none"
    /\ redirect \in RedirectValues
    /\ today \in Days
    /\ \E hf \in {Absent, "true", "false"} : \E ht \in 0..MaxDay :
          /\ ht <= today
          /\ storage = [hideForever |-> hf, hideToday |-> ht]
    /\ navigated = <<>>
    /\ lastEvent = "mount"
    /\ visits = 1

\* The page is opened again (reload, or a return to /login): a new component
\* instance, the same localStorage.
Remount ==
    /\ visits \in 1..(MaxVisits - 1)
    /\ visits' = visits + 1
    /\ checking' = TRUE
    /\ localAuthEnabled' = FALSE
    /\ localRegistrationEnabled' = FALSE
    /\ loading' = FALSE
    /\ showAnnouncement' = FALSE
    /\ request' = "none"
    /\ redirect' \in RedirectValues
    /\ navigated' = <<>>
    /\ lastEvent' = "mount"
    /\ UNCHANGED <<storage, today, script>>

\* Midnight passes.
DayPasses ==
    /\ visits >= 1
    /\ today < MaxDay
    /\ today' = today + 1
    /\ UNCHANGED <<checking, localAuthEnabled, localRegistrationEnabled, loading,
                   showAnnouncement, request, redirect, storage, navigated,
                   lastEvent, visits, script>>

\* checkAuth, lines 23-26: getCurrentUser resolves, the user is signed in.
checkAuthSignedIn ==
    /\ OnPage
    /\ checking
    /\ navigated' = Append(navigated, RedirectTarget(redirect))
    /\ lastEvent' = "checkAuth"
    /\ UNCHANGED <<checking, localAuthEnabled, localRegistrationEnabled, loading,
                   showAnnouncement, request, redirect, storage, today, visits,
                   script>>

\* checkAuth, lines 27-38: getCurrentUser throws; getAuthConfig gives the two
\* switches, or throws and both are off.
checkAuthSignedOut ==
    /\ OnPage
    /\ checking
    /\ \E configLoaded \in BOOLEAN, auth \in BOOLEAN, registration \in BOOLEAN :
          /\ localAuthEnabled' = (configLoaded /\ auth)
          /\ localRegistrationEnabled' = (configLoaded /\ registration)
    /\ checking' = FALSE
    /\ lastEvent' = "checkAuth"
    /\ UNCHANGED <<loading, showAnnouncement, request, redirect, storage, today,
                   navigated, visits, script>>

\* Lines 57-60: the login form is submitted.  The form is rendered once
\* checking is over and local login is enabled (lines 252, 363); its submit
\* button carries loading={loading} (line 133) and takes no click meanwhile.
handleLocalLogin ==
    /\ OnPage
    /\ ~checking
    /\ localAuthEnabled
    /\ ~loading
    /\ loading' = TRUE
    /\ request' = "login"
    /\ lastEvent' = "submit"
    /\ UNCHANGED <<checking, localAuthEnabled, localRegistrationEnabled,
                   showAnnouncement, redirect, storage, today, navigated, visits,
                   script>>

\* Lines 72-75: the registration form is submitted (lines 364, 224).
handleLocalRegister ==
    /\ OnPage
    /\ ~checking
    /\ localAuthEnabled
    /\ localRegistrationEnabled
    /\ ~loading
    /\ loading' = TRUE
    /\ request' = "register"
    /\ lastEvent' = "submit"
    /\ UNCHANGED <<checking, localAuthEnabled, localRegistrationEnabled,
                   showAnnouncement, redirect, storage, today, navigated, visits,
                   script>>

\* Lines 44-55.
handleLoginSuccess ==
    IF AnnouncementHidden(storage, today)
    THEN /\ navigated' = Append(navigated, RedirectTarget(redirect))
         /\ UNCHANGED showAnnouncement
    ELSE /\ showAnnouncement' = TRUE
         /\ UNCHANGED navigated

\* Variant: loading is cleared when the response reports no success.
ResolvedClearsLoading(success) ==
    /\ request # "none"
    /\ request' = "none"
    /\ IF success THEN handleLoginSuccess /\ UNCHANGED loading
       ELSE loading' = FALSE /\ UNCHANGED <<showAnnouncement, navigated>>
    /\ lastEvent' = IF success THEN "resolved_true" ELSE "resolved_false"
    /\ UNCHANGED <<checking, localAuthEnabled, localRegistrationEnabled,
                   redirect, storage, today, visits, script>>

\* Lines 60-65 and 75-80: the awaited call resolves.
Resolved(success) ==
    /\ request # "none"
    /\ request' = "none"
    /\ IF success THEN handleLoginSuccess ELSE UNCHANGED <<showAnnouncement, navigated>>
    /\ lastEvent' = IF success THEN "resolved_true" ELSE "resolved_false"
    /\ UNCHANGED <<checking, localAuthEnabled, localRegistrationEnabled, loading,
                   redirect, storage, today, visits, script>>

\* Lines 66-69 and 81-84: the awaited call throws.
Threw ==
    /\ request # "none"
    /\ request' = "none"
    /\ loading' = FALSE
    /\ lastEvent' = "threw"
    /\ UNCHANGED <<checking, localAuthEnabled, localRegistrationEnabled,
                   showAnnouncement, redirect, storage, today, navigated, visits,
                   script>>

\* Lines 87-91: the modal (visible={showAnnouncement}, line 269) is closed.
handleAnnouncementClose ==
    /\ OnPage
    /\ showAnnouncement
    /\ showAnnouncement' = FALSE
    /\ navigated' = Append(navigated, RedirectTarget(redirect))
    /\ lastEvent' = "close"
    /\ UNCHANGED <<checking, localAuthEnabled, localRegistrationEnabled, loading,
                   request, redirect, storage, today, visits, script>>

\* Lines 93-96.
handleDoNotShowToday ==
    /\ OnPage
    /\ showAnnouncement
    /\ storage' = [storage EXCEPT !.hideToday = today]
    /\ lastEvent' = "hide_today"
    /\ UNCHANGED <<checking, localAuthEnabled, localRegistrationEnabled, loading,
                   showAnnouncement, request, redirect, today, navigated, visits,
                   script>>

\* Lines 98-100.
handleNeverShow ==
    /\ OnPage
    /\ showAnnouncement
    /\ storage' = [storage EXCEPT !.hideForever = "true"]
    /\ lastEvent' = "never_show"
    /\ UNCHANGED <<checking, localAuthEnabled, localRegistrationEnabled, loading,
                   showAnnouncement, request, redirect, today, navigated, visits,
                   script>>

\* The script is not run while the page is used.
ScriptNotRun ==
    Start([exists : {FALSE}, readable : {FALSE}, content : {<<>>},
           cfg : DefaultConfigs])

InitLogin == ScriptNotRun /\ PageOpened

NextLogin ==
    \/ checkAuthSignedIn
    \/ checkAuthSignedOut
    \/ handleLocalLogin
    \/ handleLocalRegister
    \/ \E success \in BOOLEAN : Resolved(success)
    \/ Threw
    \/ handleAnnouncementClose
    \/ handleDoNotShowToday
    \/ handleNeverShow
    \/ DayPasses
    \/ Remount

SpecLogin == InitLogin /\ [][NextLogin]_vars


(***************************************************************************)
(* Properties                                                              *)
(***************************************************************************)
Done == pc = "done"
ColonsDone == pc \in {"warnings", "result", "done"}
ParagraphsDone == pc \notin {"start", "aborted", "paragraphs"}

HasIssue(r) == \E k \in 1..Len(issues) : issues[k].rule = r
IssueCount(r) == Cardinality({k \in 1..Len(issues) : issues[k].rule = r})
InSeq(n, h) == \E k \in 1..Len(h) : h[k] = n

\* The exemption shape as the specification words it: any of the seven
\* verbs, then optional whitespace, the colon, optional whitespace, a quote.
VerbColonQuote(line) ==
    \E i \in 1..Len(line) : \E v \in 1..Len(SpeechVerbs) :
        /\ MatchAt(line, i, SpeechVerbs[v])
        /\ ColonQuoteTailAt(line, i + Len(SpeechVerbs[v]))

\* Scenario text: three colons, each of the form verb + colon + quote.
ThreeQuoteColons ==
    <<"u8bf4", colonChar, quoteChar, "u95ee", colonChar, DQ, LF,
      "u8bf4", colonChar, quoteChar, X>>

ThreeQuoteColonsRun ==
    /\ Done
    /\ text = ThreeQuoteColons
    /\ ColonExceptionsQuoteOnly
    /\ ~SkipTitleLine
    /\ ColonBudget = 2

\* The violation count as C1 reads it: the colons left once the quote-only
\* exemption has been applied, all colons when the option is off.
ClaimedViolationCount ==
    IF ColonExceptionsQuoteOnly THEN Len(colonViolations) ELSE colonCount

\* C1 as stated: the colon-budget reason is raised exactly when the violation
\* count exceeds ColonBudget, so three exempt colons under budget 2 raise no
\* colon reason.
C1_BudgetOnViolationCount ==
    Done =>
        /\ HasIssue("colon_budget") <=> ClaimedViolationCount > ColonBudget
        /\ ThreeQuoteColonsRun => ~HasIssue("colon_budget") /\ ~HasIssue("colon_usage")

\* C1 amended: the colon-budget reason is raised exactly when the raw colon
\* count (after the title-line subtraction) exceeds ColonBudget, exempt colons
\* included; the three-exempt-colon document under budget 2 has raw count 3,
\* violation count 0, gets the budget reason and not the non-quote reason.
C1_BudgetOnRawCount ==
    Done =>
        /\ HasIssue("colon_budget") <=> colonCount > ColonBudget
        /\ ThreeQuoteColonsRun =>
            /\ colonCount = 3
            /\ Len(colonViolations) = 0
            /\ HasIssue("colon_budget")
            /\ ~HasIssue("colon_usage")

C1_Witness == ThreeQuoteColonsRun

\* C2 as stated: with ColonExceptionsQuoteOnly set, a listed colon line is a
\* violation unless it contains verb + colon + quote; a verb elsewhere in the
\* line does not exempt it.
C2_ViolationUnlessVerbColonQuote ==
    (ColonsDone /\ ColonExceptionsQuoteOnly) =>
        \A k \in 1..Len(colonHits) :
            InSeq(colonHits[k], colonViolations) <=> ~VerbColonQuote(lines[colonHits[k]])

\* C3: the colon violation count never exceeds the colon count that is
\* compared with the budget, SkipTitleLine set or not.
C3_ViolationsAtMostCount ==
    ColonsDone => Len(colonViolations) <= colonCount

C3_Witness ==
    /\ Done
    /\ SkipTitleLine
    /\ Len(lines) = 2
    /\ RegexCount(lines[1], colon) > 0
    /\ Len(colonViolations) = 1
    /\ colonCount = 1

\* C4 as stated: raw colon count = violation count iff the option is off.
C4_EqualIffOptionOff ==
    Done => ((colonCount = Len(colonViolations)) <=> ~ColonExceptionsQuoteOnly)

\* C4 amended: with ColonExceptionsQuoteOnly off no violation is recorded, so
\* the violation count is 0 and equals the raw colon count only when that is 0
\* too; with the option on, the counts are equal exactly when the raw count is
\* the number of listed non-exempt lines.
C4_NoViolationsWhenOptionOff ==
    Done =>
        /\ ~ColonExceptionsQuoteOnly =>
            /\ Len(colonViolations) = 0
            /\ (colonCount = Len(colonViolations)) <=> (colonCount = 0)
        /\ ColonExceptionsQuoteOnly =>
            ((colonCount = Len(colonViolations)) <=>
                colonCount = Cardinality({k \in 1..Len(colonHits) :
                                 ~MatchesQuoteOnlyPattern(lines[colonHits[k]])}))

C4_Witness ==
    Done /\ ~ColonExceptionsQuoteOnly /\ colonCount > 0 /\ Len(colonHits) > 0

\* Rules without an exception predicate: <<hit list, reported count, pattern>>.
PlainRules ==
    << <<hits, counts["er_shi"] + counts["ni_hui"], HitLinePattern>>,
       <<exclHits, counts["exclamation"], exclamation>>,
       <<dashHits, dashCount, dash>>,
       <<metaphorHits, metaphorCount, metaphor_markers>>,
       <<doubleAdjHits, doubleAdjCount, double_adj>> >>

\* C5 as stated: a non-empty hit list has as many entries as the rule's
\* reported count, also when a line holds several occurrences.
C5_CountIsHitListLength ==
    Done =>
        \A r \in 1..Len(PlainRules) :
            PlainRules[r][1] # <<>> => PlainRules[r][2] = Len(PlainRules[r][1])

\* C5 amended: the reported count is the number of occurrences in the text
\* and the hit list has one entry per matching line, so the count is at least
\* the list's length, with equality exactly when no listed line holds more
\* than one occurrence.
C5_CountAtLeastHitLines ==
    Done =>
        \A r \in 1..Len(PlainRules) :
            LET h == PlainRules[r][1]
                c == PlainRules[r][2]
            IN  /\ Len(h) <= c
                /\ (c = Len(h)) <=>
                       \A k \in 1..Len(h) : RegexCount(lines[h[k]], PlainRules[r][3]) = 1

C5_Witness ==
    /\ Done
    /\ Len(exclHits) = 2
    /\ counts["exclamation"] = 3

\* The eight threshold conditions, by the name of the reason each raises.
Conditions ==
    [er_shi |-> counts["er_shi"] > 1,
     ni_hui |-> counts["ni_hui"] > 0,
     colon_budget |-> colonCount > ColonBudget,
     colon_usage |-> ColonExceptionsQuoteOnly /\ Len(colonViolations) > 0,
     short_paragraphs |-> shortParagraphCount >= 4,
     exclamation |-> counts["exclamation"] > 2,
     dashes |-> dashCount > 3,
     roadmark_terms |-> counts["roadmark_terms"] > 2]

Verdicts == {out[k][3] : k \in {j \in 1..Len(out) : out[j][2] = "verdict"}}
ReasonLines == {k \in 1..Len(out) : out[k][2] = "issue"}

\* C6: the verdict is PASS iff none of the eight conditions holds, otherwise
\* FAIL with exactly one reason per condition that holds; an empty document
\* passes with no reasons.
C6_VerdictIffNoCondition ==
    Done =>
        /\ \A r \in DOMAIN Conditions : IssueCount(r) = IF Conditions[r] THEN 1 ELSE 0
        /\ Len(issues) = Cardinality({r \in DOMAIN Conditions : Conditions[r]})
        /\ Cardinality(ReasonLines) = Len(issues)
        /\ Verdicts = IF \E r \in DOMAIN Conditions : Conditions[r]
                      THEN {"FAIL"} ELSE {"PASS"}
        /\ (text = <<>>) =>
              /\ paragraphCount = 0
              /\ \A n \in DOMAIN counts : counts[n] = 0
              /\ Verdicts = {"PASS"}
              /\ issues = <<>>

C6_Witness ==
    /\ Done
    /\ Verdicts = {"FAIL"}
    /\ Len(issues) = 2
    /\ HasIssue("er_shi")
    /\ HasIssue("ni_hui")

\* C7: the short-paragraph reason appears iff at least 4 paragraphs have a
\* trimmed length under 100, whatever the other counts and the parameters.
C7_ShortParagraphReason ==
    Done =>
        (HasIssue("short_paragraphs") <=>
            Cardinality({k \in 1..Len(paragraphs) : Len(Trim(paragraphs[k])) < 100}) >= 4)

C7_Witness ==
    /\ Done
    /\ paragraphCount = 4
    /\ shortParagraphCount = 4
    /\ HasIssue("short_paragraphs")
    /\ SkipTitleLine

\* C8 as stated: the non-quote reason appears iff ColonExceptionsQuoteOnly is
\* set and some listed colon line lacks verb + colon + quote, independently of
\* the budget reason.
C8_NonQuoteReason ==
    Done =>
        (HasIssue("colon_usage") <=>
            /\ ColonExceptionsQuoteOnly
            /\ \E k \in 1..Len(colonHits) : ~VerbColonQuote(lines[colonHits[k]]))

\* C9 as stated: with SkipTitleLine the budgeted colon count is the text's
\* colons minus those of line 1, and line 1 is neither listed nor a
\* violation; without it line 1 counts and is listed like any line.
C9_TitleLineSkipped ==
    ColonsDone =>
        LET line1 == IF Len(lines) >= 1 THEN lines[1] ELSE <<>>
        IN  /\ colonCount = RegexCount(text, colon)
                            - (IF SkipTitleLine THEN RegexCount(line1, colon) ELSE 0)
            /\ SkipTitleLine => ~InSeq(1, colonHits) /\ ~InSeq(1, colonViolations)
            /\ (~SkipTitleLine /\ RegexCount(line1, colon) > 0) => InSeq(1, colonHits)

\* C10: no paragraph has trimmed length 0; whitespace-only pieces are dropped
\* before the paragraph count and the short count are taken, so the short
\* count counts trimmed lengths 1..99 and is at most the paragraph count.
C10_NoEmptyParagraph ==
    /\ ParagraphsDone => paragraphCount = Len(paragraphs) /\ shortParagraphCount <= paragraphCount
    /\ pc = "counts" =>
        LET pieces == SplitParagraphs(Trim(text))
        IN  /\ \A k \in 1..Len(paragraphs) : Len(Trim(paragraphs[k])) > 0
            /\ paragraphCount =
                   Cardinality({k \in 1..Len(pieces) : Len(Trim(pieces[k])) > 0})
            /\ shortParagraphCount =
                   Cardinality({k \in 1..Len(paragraphs) :
                                   Len(Trim(paragraphs[k])) \in 1..99})

C10_Witness ==
    /\ pc = "counts"
    /\ \E k \in 1..Len(SplitParagraphs(Trim(text))) :
           SplitParagraphs(Trim(text))[k] = <<SP>>
    /\ paragraphCount = 3
    /\ shortParagraphCount = 2

\* The numbers the report shows under the label tag of section sec.
StatValues(sec, tag) ==
    {out[k][4] : k \in {j \in 1..Len(out) :
                            out[j][1] = sec /\ out[j][2] = "stat" /\ out[j][3] = tag}}

\* C11: the reported average paragraph length is 0 when there is no
\* paragraph, and otherwise an integer nearest to (sum of the trimmed paragraph
\* lengths) / (paragraph count): it differs from the quotient by at most 1/2.
C11_AvgIsRoundedMean ==
    pc = "hit_lines" =>
        LET n == Len(paragraphs)
            total == TotalParaChars(paragraphs)
        IN  /\ StatValues("paragraphs", "Avg") = {avgParaLen}
            /\ StatValues("paragraphs", "Paragraphs") = {n}
            /\ n = 0 => avgParaLen = 0
            /\ n > 0 => (2 * n * avgParaLen - 2 * total) \in (0 - n)..n

\* A tie: two paragraphs of 1 and 100 characters, mean 50.5, reported 50.
C11_Witness ==
    /\ pc = "hit_lines"
    /\ paragraphCount = 2
    /\ TotalParaChars(paragraphs) = 101
    /\ avgParaLen = 50

\* The paragraphs ps written out again, a double line break between them.
RECURSIVE JoinParagraphs(_)
JoinParagraphs(ps) ==
    IF ps = <<>> THEN <<>>
    ELSE IF Len(ps) = 1 THEN ps[1]
    ELSE ps[1] \o <<LF, LF>> \o JoinParagraphs(Tail(ps))

\* C12: segmenting the extracted paragraphs, joined by a double line break,
\* yields the paragraph count of the document again.
C12_SegmentationIdempotent ==
    pc = "counts" =>
        Len(Paragraphs(JoinParagraphs(paragraphs))) = paragraphCount

\* The joined text is not the document: a paragraph ends in a carriage return
\* that the inserted break absorbs.
C12_Witness ==
    /\ pc = "counts"
    /\ paragraphCount = 2
    /\ paragraphs[1] = <<X, LF, CR>>
    /\ JoinParagraphs(paragraphs) # Trim(text)
    /\ Paragraphs(JoinParagraphs(paragraphs))[1] = <<X>>

\* The path names something Get-Content can read.
Readable == file.exists /\ file.readable

\* C13 as stated: a path that names no readable resource aborts the run with
\* an error and no report line at all; a loaded document always gets a full
\* report that ends in the PASS or FAIL line and its reasons, and the run then
\* ends without an error signal, whatever the verdict.
C13_AbortOrFullReport ==
    /\ (pc # "start" /\ ~Readable) => (pc = "aborted" /\ out = <<>> /\ exitCode = 1)
    /\ (pc # "start" /\ Readable) => pc # "aborted"
    /\ (Done /\ Readable) =>
          /\ exitCode = 0
          /\ Cardinality({k \in 1..Len(out) : out[k][2] = "verdict"}) = 1
          /\ \A k \in 1..Len(out) :
                 out[k][2] = "verdict" => \A j \in (k + 1)..Len(out) : out[j][2] = "issue"
          /\ StatValues("report", "Chars") = {Len(file.content)}

\* The second run of an invocation has ended.
SecondRunEnded == pc \in {"done", "aborted"} /\ previous # <<>>

\* C14: the second run of the script on the same file with the same
\* parameters ends with the same report (verdict line, reason lines and hit
\* listings, in the same order), the same reason list and the same exit
\* signal as the first, whether or not the first run's variables are still set.
C14_SecondRunSame ==
    SecondRunEnded =>
        /\ out = previous[1].out
        /\ issues = previous[1].issues
        /\ exitCode = previous[1].exitCode

\* A second run that ended in FAIL with two reasons and listed hits.
C14_Witness ==
    /\ SecondRunEnded
    /\ pc = "done"
    /\ Len(issues) = 2
    /\ Verdicts = {"FAIL"}
    /\ \E k \in 1..Len(out) : out[k][2] = "hit"
    /\ metaphorCount = 0

\* The report lines of section sec other than the blank separator.
SectionLines(sec) ==
    {k \in 1..Len(out) : out[k][1] = sec /\ out[k][2] # "blank"}
SectionShown(sec) == SectionLines(sec) # {}
SectionKinds(sec) == {out[k][2] : k \in SectionLines(sec)}
SectionHits(sec) ==
    LET IsHit(e) == e[1] = sec /\ e[2] = "hit"
        listed == SelectSeq(out, IsHit)
    IN  [k \in 1..Len(listed) |-> listed[k][4]]

\* The four warning sections and the count of the pattern each reports.
WarningCount ==
    [exclamation |-> counts["exclamation"],
     dash |-> dashCount,
     metaphor |-> metaphorCount,
     double_adj |-> doubleAdjCount]

\* C15 as stated: each of the exclamation, dash, metaphor and double-adjective
\* sections appears in the report only when its count is not 0; with count 0
\* nothing of it, the header included, is printed.
C15_WarningSectionOnlyWhenNonzero ==
    Done => \A sec \in DOMAIN WarningCount :
                SectionShown(sec) => WarningCount[sec] # 0

\* C15 amended: the exclamation and the double-adjective section appear
\* exactly when their count is not 0; the dash section appears exactly when
\* the dash count exceeds 3, so it is omitted for counts 0 to 3; the metaphor
\* section's header and count line appear in every report, also with count 0,
\* and only its hit lines depend on the count being nonzero.
C15_WarningSectionRendering ==
    Done =>
        /\ SectionShown("exclamation") <=> counts["exclamation"] > 0
        /\ SectionShown("double_adj") <=> doubleAdjCount > 0
        /\ SectionShown("dash") <=> dashCount > 3
        /\ {"title", "stat"} \subseteq SectionKinds("metaphor")
        /\ StatValues("metaphor", "Count") = {metaphorCount}
        /\ ("hit" \in SectionKinds("metaphor")) <=> metaphorCount > 0

\* No metaphor marker, two dash sequences, one exclamation mark: the metaphor
\* header is there with count 0, the dash section is not.
C15_Witness ==
    /\ Done
    /\ metaphorCount = 0
    /\ SectionKinds("metaphor") = {"title", "stat"}
    /\ dashCount = 2
    /\ ~SectionShown("dash")
    /\ SectionShown("exclamation")
    /\ ~SectionShown("double_adj")

Range(h) == {h[k] : k \in 1..Len(h)}
NoneCount(sec) ==
    Cardinality({k \in 1..Len(out) : out[k][1] = sec /\ out[k][2] = "none"})

\* The lines a section that is always rendered has to list.
LinesToList ==
    [hit_lines |-> {n \in 1..Len(lines) : RegexIsMatch(lines[n], HitLinePattern)},
     colon_lines |-> {n \in 1..Len(lines) :
                         /\ RegexIsMatch(lines[n], colon)
                         /\ SkipTitleLine => n > 1}]

\* C16: the direct-address hit section and the colon-lines section are in
\* every report; each lists its hit lines, once each, when there are any and
\* shows exactly the placeholder when there are none, the colon section also
\* when SkipTitleLine removes the only line with a colon.
C16_AlwaysRenderedSections ==
    Done =>
        \A sec \in DOMAIN LinesToList :
            /\ "title" \in SectionKinds(sec)
            /\ Range(SectionHits(sec)) = LinesToList[sec]
            /\ Len(SectionHits(sec)) = Cardinality(LinesToList[sec])
            /\ NoneCount(sec) = IF LinesToList[sec] = {} THEN 1 ELSE 0

\* The only colon is on line 1 and SkipTitleLine is set: both sections show
\* the placeholder.
C16_Witness ==
    /\ Done
    /\ SkipTitleLine
    /\ Len(lines) = 2
    /\ RegexIsMatch(lines[1], colon)
    /\ ~RegexIsMatch(lines[2], colon)
    /\ SectionKinds("colon_lines") = {"title", "none"}
    /\ SectionKinds("hit_lines") = {"title", "none"}

\* Four em-dash sequences and no other threshold condition.
FourDashesOnly ==
    /\ dashCount = 4
    /\ \A r \in DOMAIN Conditions \ {"dashes"} : ~Conditions[r]

DashLines == {n \in 1..Len(lines) : RegexIsMatch(lines[n], dash)}

\* C17 as stated: the dash reason and the dash warning section both appear
\* exactly when the em-dash count exceeds 3; with 4 em-dash sequences and all
\* else within bounds the verdict is FAIL, the dash reason is the only reason
\* and the dash section lists all 4 occurrences.
C17_DashSectionListsOccurrences ==
    Done =>
        /\ HasIssue("dashes") <=> dashCount > 3
        /\ SectionShown("dash") <=> dashCount > 3
        /\ FourDashesOnly =>
              /\ Verdicts = {"FAIL"}
              /\ Len(issues) = 1
              /\ Len(SectionHits("dash")) = 4

\* C17 amended: as stated, except that the dash section lists the lines that
\* hold an em-dash sequence, each once: with 4 sequences it has between 1 and
\* 4 entries, as many as there are such lines.
C17_DashSectionListsLines ==
    Done =>
        /\ HasIssue("dashes") <=> dashCount > 3
        /\ SectionShown("dash") <=> dashCount > 3
        /\ SectionShown("dash") =>
              /\ Range(SectionHits("dash")) = DashLines
              /\ Len(SectionHits("dash")) = Cardinality(DashLines)
              /\ Len(SectionHits("dash")) \in 1..dashCount
        /\ FourDashesOnly =>
              /\ Verdicts = {"FAIL"}
              /\ Len(issues) = 1
              /\ issues[1].rule = "dashes"

\* Four sequences on two lines: FAIL for the dashes alone, two lines listed.
C17_Witness ==
    /\ Done
    /\ FourDashesOnly
    /\ Len(issues) = 1
    /\ Len(SectionHits("dash")) = 2

\* The pattern whose hits each section lists.
SectionPattern ==
    [hit_lines |-> HitLinePattern,
     colon_lines |-> colon,
     colon_violations |-> colon,
     exclamation |-> exclamation,
     dash |-> dash,
     metaphor |-> metaphor_markers,
     double_adj |-> double_adj]

\* C18: every hit line of the report carries a number n between 1 and the
\* reported line count, and line n of the document contains the pattern of
\* the section the hit is listed in; the numbers are positions in the whole
\* document, also when SkipTitleLine has dropped line 1 from the colon hits.
C18_HitLineNumbers ==
    Done =>
        /\ StatValues("report", "Lines") = {Len(ReadLines(Content(file)))}
        /\ \A k \in 1..Len(out) :
               out[k][2] = "hit" =>
                   /\ out[k][4] \in 1..Len(ReadLines(Content(file)))
                   /\ RegexIsMatch(ReadLines(Content(file))[out[k][4]],
                                   SectionPattern[out[k][1]])

\* Colons on both lines, SkipTitleLine set: the one colon hit is numbered 2.
C18_Witness ==
    /\ Done
    /\ SkipTitleLine
    /\ Len(lines) = 2
    /\ RegexIsMatch(lines[1], colon)
    /\ SectionHits("colon_lines") = <<2>>
    /\ SectionHits("colon_violations") = <<2>>

\* The patterns no threshold condition reads.
OtherPatterns ==
    {"bu_shi", "ni", "semicolon", "period", "ai_roadmarks_extra",
     "metaphor_markers", "double_adj"}
TrackedPatterns == {"er_shi", "ni_hui", "colon", "exclamation", "dash", "roadmark_terms"}

\* A line with one occurrence of each of the other patterns and none of the
\* tracked ones.
OtherPatternsLine ==
    bu_shi[1] \o ni[1] \o semicolon[1] \o period[1] \o ai_roadmarks_extra[2]
    \o metaphor_markers[1] \o double_adj[1]

\* The document with that line added at its end.
WithOtherPatterns(t) == IF t = <<>> THEN OtherPatternsLine ELSE t \o <<LF>> \o OtherPatternsLine

\* C19: the reason list, and with it the verdict, is the same for the document
\* and for the document with one more occurrence of each of bu_shi, ni,
\* semicolon, period, the extra AI-tell phrases, the metaphor markers and the
\* double-adjective connective, the tracked pattern counts, the colon count,
\* the colon violations and the short-paragraph count being the same.
C19_OtherPatternsLeaveVerdict ==
    Done =>
        /\ \A n \in TrackedPatterns :
               RegexCount(OtherPatternsLine, patterns[n]) = 0
        /\ \A n \in OtherPatterns :
               RegexCount(OtherPatternsLine, patterns[n]) > 0
        /\ Issues(WithOtherPatterns(text), colonCount, colonViolations, ColonBudget,
                  ColonExceptionsQuoteOnly, shortParagraphCount, dashCount) = issues
        /\ Verdicts = IF issues = <<>> THEN {"PASS"} ELSE {"FAIL"}

\* A document that fails for er_shi alone and holds bu_shi, a semicolon and a
\* period already.
C19_Witness ==
    /\ Done
    /\ counts["bu_shi"] > 0
    /\ counts["semicolon"] > 0
    /\ counts["period"] > 0
    /\ Len(issues) = 1
    /\ HasIssue("er_shi")

\* The order the claim gives for the reasons.
ReasonOrder ==
    <<"er_shi", "ni_hui", "colon_budget", "colon_usage", "short_paragraphs",
      "exclamation", "dashes", "roadmark_terms">>
Rank(r) == CHOOSE k \in 1..Len(ReasonOrder) : ReasonOrder[k] = r

VerdictLines == {k \in 1..Len(out) : out[k][2] = "verdict"}
ListedReasons ==
    LET IsReason(e) == e[2] = "issue"
        listed == SelectSeq(out, IsReason)
    IN  [k \in 1..Len(listed) |-> listed[k][3]]

ResolvedStep ==
    /\ request # "none"
    /\ request' = "none"
    /\ visits' = visits
    /\ lastEvent' \in {"resolved_true", "resolved_false"}

SuccessStep == ResolvedStep /\ lastEvent' = "resolved_true"

\* C22: when a login or registration succeeds, the page navigates at once to
\* the redirect target ('/' without a redirect parameter) if and only if
\* announcement_hide_forever is 'true' or announcement_hide_today is today's
\* date; otherwise it shows the announcement and does not navigate.  While the
\* announcement is shown the only step that navigates is closing it, which
\* goes to the redirect target; 'do not show today' and 'never show' change
\* the stored preference and neither navigate nor close the announcement.
C22_NavigationAfterSuccess ==
    /\ [][SuccessStep =>
              IF storage.hideForever = "true" \/ storage.hideToday = today
              THEN /\ navigated' = <<IF redirect \in {Absent, ""} THEN "/" ELSE redirect>>
                   /\ ~showAnnouncement'
              ELSE /\ showAnnouncement'
                   /\ navigated' = <<>>]_vars
    /\ [](showAnnouncement => navigated = <<>>)
    /\ [][(showAnnouncement /\ navigated' # navigated /\ visits' = visits) =>
              /\ lastEvent' = "close"
              /\ ~showAnnouncement'
              /\ navigated' = <<IF redirect \in {Absent, ""} THEN "/" ELSE redirect>>]_vars
    /\ [][(storage' # storage) =>
              /\ lastEvent' \in {"hide_today", "never_show"}
              /\ showAnnouncement /\ showAnnouncement'
              /\ navigated' = navigated]_vars
    /\ [][(lastEvent' = "hide_today" /\ lastEvent # "hide_today") =>
              storage' = [storage EXCEPT !.hideToday = today]]_vars
    /\ [][(lastEvent' = "never_show" /\ lastEvent # "never_show") =>
              storage' = [storage EXCEPT !.hideForever = "true"]]_vars

\* On the second mounting a success navigates at once to the redirect
\* parameter because the announcement was hidden today, not forever.
C22_Witness ==
    /\ lastEvent = "resolved_true"
    /\ visits = 2
    /\ navigated = <<"/projects">>
    /\ storage.hideToday = today
    /\ storage.hideForever # "true"
    /\ ~showAnnouncement

=============================================================================
